---- MODULE Spec2Model ----
(***************************************************************************)
(* A model of cctv.py, the CCTV streamer: a Tk form whose Start button     *)
(* handler (start_stream) validates the fields, picks a mount name,        *)
(* locates the bundled ffmpeg and starts a daemon worker thread that       *)
(* probes the camera (detect_rtsp_url) and launches the stream             *)
(* (run_ffmpeg).                                                           *)
(*                                                                         *)
(* A Python str is modelled as a sequence of one-character strings, so     *)
(* that strip, re.sub, basename, splitext and the f-strings are computed   *)
(* character by character.                                                 *)
(***************************************************************************)
EXTENDS Integers, Sequences, FiniteSets, TLC

\* ------------------------------------------------------------ bounds
\* Longest mount name the user types in the runs explored.
MaxNameLen == 2
\* Most Start clicks that pass validation in the specification SpecClicks.
MaxClicks == 2

\* ------------------------------------------------------- characters
Lower == {"a","b","c","d","e","f","g","h","i","j","k","l","m",
          "n","o","p","q","r","s","t","u","v","w","x","y","z"}
Upper == {"A","B","C","D","E","F","G","H","I","J","K","L","M",
          "N","O","P","Q","R","S","T","U","V","W","X","Y","Z"}
DigitChars == <<"0","1","2","3","4","5","6","7","8","9">>
HexChars == <<"0","1","2","3","4","5","6","7","8","9","a","b","c","d","e","f">>
Digits == {DigitChars[k] : k \in 1..10}
HexDigits == {HexChars[k] : k \in 1..16}
\* str.strip() with no argument removes these (the ones a form field can hold).
Whitespace == {" ", "\t", "\n"}
\* The class [A-Za-z0-9_-] of the re.sub in generate_mount_name.
MountChars == Lower \cup Upper \cup Digits \cup {"_", "-"}

EMPTY == << >>

\* ---------------------------------------------------- str operations
RECURSIVE lstrip(_)
lstrip(s) == IF s # EMPTY /\ Head(s) \in Whitespace THEN lstrip(Tail(s)) ELSE s

RECURSIVE rstrip(_)
rstrip(s) ==
  IF s # EMPTY /\ s[Len(s)] \in Whitespace THEN rstrip(SubSeq(s, 1, Len(s) - 1)) ELSE s

\* str.strip()
strip(s) == rstrip(lstrip(s))

\* str.rfind of any character of cs, 1-based; 0 when there is none (Python's -1).
rfind(s, cs) ==
  LET hits == {k \in 1..Len(s) : s[k] \in cs}
  IN  IF hits = {} THEN 0 ELSE CHOOSE k \in hits : \A j \in hits : j <= k

\* str.find of any character of cs at or after position from, 1-based; 0 if none.
find(s, cs, from) ==
  LET hits == {k \in from..Len(s) : s[k] \in cs}
  IN  IF hits = {} THEN 0 ELSE CHOOSE k \in hits : \A j \in hits : k <= j

startswith(s, p) == Len(p) <= Len(s) /\ SubSeq(s, 1, Len(p)) = p
endswith(s, p) == Len(p) <= Len(s) /\ SubSeq(s, Len(s) - Len(p) + 1, Len(s)) = p

\* re.sub(r"[^A-Za-z0-9_-]", "_", name)
re_sub(name) == [k \in 1..Len(name) |-> IF name[k] \in MountChars THEN name[k] ELSE "_"]

\* Decimal digits of n, zero-padded to width w (strftime's %Y %m %d %H %M %S).
RECURSIVE zpad(_, _)
zpad(n, w) == IF w = 0 THEN EMPTY ELSE Append(zpad(n \div 10, w - 1), DigitChars[(n % 10) + 1])

\* Lower-case hexadecimal digits of n, zero-padded to width w (uuid.hex).
RECURSIVE hex(_, _)
hex(n, w) == IF w = 0 THEN EMPTY ELSE Append(hex(n \div 16, w - 1), HexChars[(n % 16) + 1])

\* ---------------------------------------------------------- os.path
LINUX == <<"l","i","n","u","x">>
WIN32 == <<"w","i","n","3","2">>
PosixSeps == {"/"}
NtSeps == {"\\", "/"}
Seps(platform) == IF startswith(platform, LINUX) THEN PosixSeps ELSE NtSeps

\* ntpath.splitdrive(p)[1]: the path after a drive letter or a UNC share.
nt_tail(p) ==
  IF Len(p) >= 2 /\ p[1] \in NtSeps /\ p[2] \in NtSeps
  THEN LET index == find(p, NtSeps, 3)
           index2 == IF index = 0 THEN 0 ELSE find(p, NtSeps, index + 1)
       IN  IF index = 0 \/ index2 = 0 THEN EMPTY ELSE SubSeq(p, index2, Len(p))
  ELSE IF Len(p) >= 2 /\ p[2] = ":" THEN SubSeq(p, 3, Len(p))
  ELSE p

\* os.path.basename: posixpath on Linux, ntpath on Windows.
basename(platform, p) ==
  LET t == IF startswith(platform, LINUX) THEN p ELSE nt_tail(p)
  IN  SubSeq(t, rfind(t, Seps(platform)) + 1, Len(t))

\* os.path.splitext(p)[0] (genericpath._splitext): the extension starts at the
\* last dot of the last component, leading dots of that component not counted.
splitext_root(platform, p) ==
  LET sepIndex == rfind(p, Seps(platform))
      dotIndex == rfind(p, {"."})
  IN  IF dotIndex > sepIndex /\ \E k \in (sepIndex + 1)..(dotIndex - 1) : p[k] # "."
      THEN SubSeq(p, 1, dotIndex - 1)
      ELSE p

\* os.path.join(base_dir, "ffmpeg", "ffmpeg.exe")
BaseDir(platform) == IF startswith(platform, LINUX) THEN <<"/","a","p","p">> ELSE <<"C",":","\\","a","p","p">>
path_join(platform, a, b) ==
  a \o (IF startswith(platform, LINUX) THEN <<"/">> ELSE <<"\\">>) \o b

\* --------------------------------------------------- generate_mount_name
\* datetime.utcnow().strftime("%Y%m%d_%H%M%S") of a clock reading
\* <<year, month, day, hour, minute, second>>.
strftime(now) ==
  zpad(now[1], 4) \o zpad(now[2], 2) \o zpad(now[3], 2) \o <<"_">>
    \o zpad(now[4], 2) \o zpad(now[5], 2) \o zpad(now[6], 2)

\* uuid.uuid4().hex[:6]: the six leading hex digits, u the leading 24 bits.
HexLen == 6
\* Mutant: two digits too many are cut from the uuid.
uuid_short_Eight(u) == hex(u, HexLen + 2)
uuid_short(u) == hex(u, HexLen)

generate_mount_name(now, u) ==
  re_sub(<<"s","t","r","e","a","m","_">> \o strftime(now) \o <<"_">> \o uuid_short(u))

\* ------------------------------------------------------------ check_ffmpeg
check_ffmpeg(platform) ==
  path_join(platform, path_join(platform, BaseDir(platform), <<"f","f","m","p","e","g">>), <<"f","f","m","p","e","g",".","e","x","e">>)

\* The "wine" prefix both commands get on Linux.
NeedsWine(platform, ffmpeg_path) ==
  startswith(platform, LINUX) /\ endswith(ffmpeg_path, <<".","e","x","e">>)

\* Mutant: "wine" is appended to the command instead of put in front.
WithWine_Appended(platform, ffmpeg_path, cmd) ==
  IF NeedsWine(platform, ffmpeg_path) THEN cmd \o <<<<"w","i","n","e">>>> ELSE cmd

WithWine(platform, ffmpeg_path, cmd) ==
  IF NeedsWine(platform, ffmpeg_path) THEN <<<<"w","i","n","e">>>> \o cmd ELSE cmd

\* ---------------------------------------------------------- detect_rtsp_url
common_paths ==
  << <<"/","S","t","r","e","a","m","i","n","g","/","C","h","a","n","n","e","l","s","/","1","0","1">>,
     <<"/","S","t","r","e","a","m","i","n","g","/","C","h","a","n","n","e","l","s","/","1","0","2">>,
     <<"/","c","a","m","/","r","e","a","l","m","o","n","i","t","o","r","?","c","h","a","n","n","e","l","=","1","&","s","u","b","t","y","p","e","=","0">>,
     <<"/","c","a","m","/","r","e","a","l","m","o","n","i","t","o","r","?","c","h","a","n","n","e","l","=","1","&","s","u","b","t","y","p","e","=","1">>,
     <<"/","l","i","v","e","/","m","a","i","n">>,
     <<"/","l","i","v","e","/","s","u","b">>,
     <<"/","a","x","i","s","-","m","e","d","i","a","/","m","e","d","i","a",".","a","m","p">>,
     <<"/","h","2","6","4","P","r","e","v","i","e","w","_","0","1","_","m","a","i","n">>,
     <<"/","h","2","6","4","P","r","e","v","i","e","w","_","0","1","_","s","u","b">>,
     <<"/","s","t","r","e","a","m","1">>,
     <<"/","l","i","v","e",".","s","d","p">>,
     <<"/","m","e","d","i","a","/","v","i","d","e","o","1">>,
     <<"/","v","i","d","e","o","M","a","i","n">>,
     <<"/","v","i","d","e","o","S","u","b">>,
     <<"/","r","t","s","p","_","t","u","n","n","e","l">>,
     <<"/","d","e","f","a","u","l","t","P","r","i","m","a","r","y">>,
     <<"/","M","e","d","i","a","I","n","p","u","t","/","h","2","6","4">>,
     <<"/","p","r","o","f","i","l","e","1","/","m","e","d","i","a",".","s","m","p">>,
     <<"/","c","h","a","n","n","e","l","1">>,
     <<"/","l","i","v","e","/","c","h","0","0","_","0">> >>
NumPaths == Len(common_paths)

\* f"rtsp://{user}:{password}@{ip}:554{path}"
RtspUrl(user, password, ip, path) ==
  <<"r","t","s","p",":","/","/">> \o user \o <<":">> \o password \o <<"@">> \o ip \o <<":","5","5","4">> \o path

\* The argument that follows the first "-i" of a command line.
InputOf(cmd) ==
  cmd[(CHOOSE k \in 1..Len(cmd) : cmd[k] = <<"-","i">> /\ \A j \in 1..(k - 1) : cmd[j] # <<"-","i">>) + 1]

ProbeCmd(platform, ffmpeg_path, rtsp_url) ==
  WithWine(platform, ffmpeg_path,
    << ffmpeg_path, <<"-","r","t","s","p","_","t","r","a","n","s","p","o","r","t">>, <<"t","c","p">>, <<"-","i">>, rtsp_url,
       <<"-","t">>, <<"3">>, <<"-","f">>, <<"n","u","l","l">>, <<"-">> >>)

\* What one subprocess.run of the probe can do: complete with some of the three
\* markers in its stderr and a return code, run into the timeout, or raise.
Markers == {"stream #0", "video", "realrtsp"}
ProbeOutcomes ==
  [kind : {"completed"}, stderr : SUBSET Markers, returncode : {0, 1}]
    \cup {[kind |-> "timeout", stderr |-> {}, returncode |-> 1],
          [kind |-> "exception", stderr |-> {}, returncode |-> 1]}

\* Mutant: the return code is not looked at.
LooksValid_MarkersOnly(out) ==
  /\ out.kind = "completed"
  /\ \/ "stream #0" \in out.stderr
     \/ "video" \in out.stderr
     \/ "realrtsp" \in out.stderr

\* The test of lines 86 and 90 on a probe that completed.
LooksValid(out) ==
  /\ out.kind = "completed"
  /\ \/ "stream #0" \in out.stderr
     \/ "video" \in out.stderr
     \/ "realrtsp" \in out.stderr
     \/ out.returncode = 0

\* Mutant: the loop leaves out the last candidate.
ProbeStep_StopsEarly(i, out) ==
  IF LooksValid(out) THEN "found"
  ELSE IF i + 1 < NumPaths THEN "probing"
  ELSE "not_found"

\* Mutant: the last candidate is taken as found whatever its probe said.
ProbeStep_LastAssumed(i, out) ==
  IF LooksValid(out) \/ i = NumPaths THEN "found" ELSE "probing"

\* One iteration of the loop at index i: the loop's next control point.
ProbeStep(i, out) ==
  IF LooksValid(out) THEN "found"
  ELSE IF i < NumPaths THEN "probing"
  ELSE "not_found"

\* ---------------------------------------------------------------- run_ffmpeg
\* Lines 105-106: the name the two URLs are built from.
MountOf(platform, stream_name) ==
  splitext_root(platform, basename(platform, stream_name))

IcecastBase == <<"i","c","e","c","a","s","t",":","/","/","s","o","u","r","c","e",":","h","a","c","k","m","e","@","p","o","r","t","a","l",".","t","h","a","b","i","r",".","a","i",":","8","0","/">>
ViewerBase == <<"h","t","t","p",":","/","/","p","o","r","t","a","l",".","t","h","a","b","i","r",".","a","i","/">>
icecast_url(platform, stream_name) == IcecastBase \o MountOf(platform, stream_name)
viewer_url(platform, stream_name) == ViewerBase \o MountOf(platform, stream_name)

StreamCmd(platform, ffmpeg_path, rtsp_url, stream_name) ==
  WithWine(platform, ffmpeg_path,
    << ffmpeg_path,
       <<"-","r","t","s","p","_","t","r","a","n","s","p","o","r","t">>, <<"t","c","p">>,
       <<"-","t","h","r","e","a","d","_","q","u","e","u","e","_","s","i","z","e">>, <<"5","1","2">>,
       <<"-","i">>, rtsp_url,
       <<"-","c",":","v">>, <<"l","i","b","v","p","x">>,
       <<"-","d","e","a","d","l","i","n","e">>, <<"r","e","a","l","t","i","m","e">>,
       <<"-","c","p","u","-","u","s","e","d">>, <<"5">>,
       <<"-","g">>, <<"1">>,
       <<"-","b",":","v">>, <<"1","0","0","0","k">>,
       <<"-","a","r">>, <<"4","4","1","0","0">>,
       <<"-","a","c">>, <<"1">>,
       <<"-","c",":","a">>, <<"l","i","b","v","o","r","b","i","s">>,
       <<"-","b",":","a">>, <<"1","2","8","k">>,
       <<"-","c","o","n","t","e","n","t","_","t","y","p","e">>, <<"v","i","d","e","o","/","w","e","b","m">>,
       <<"-","f">>, <<"w","e","b","m">>,
       icecast_url(platform, stream_name) >>)

\* ------------------------------------------------------------------ state
VARIABLES
  platform,     \* sys.platform
  mainloop,     \* root.mainloop(): "running", "closed" (returned), "exited"
  mount_entry,  \* the text of the mount field
  url_var,      \* the read-only result field
  last_click,   \* what the last call of start_stream did
  threads       \* the worker threads started, in order; one record each

vars == <<platform, mainloop, mount_entry, url_var, last_click, threads>>

\* None is the empty string here: detect_rtsp_url returns a URL, never "".
None == EMPTY

\* ----------------------------------------------------------------- inputs
\* What the user types into the fields before a click.
IpInputs == {EMPTY, <<" ","h">>}
UserInputs == {EMPTY, <<"u">>}
PasswordInputs == {<<"\t">>, <<"p","w">>}
NameAlphabet == {"m", ".", "/", "\\", " "}
Names(n) == UNION {[1..k -> NameAlphabet] : k \in 0..n}
\* Clock readings and uuid4 draws (the leading 24 bits) of the runs explored.
Clock == {<<2025, 1, 2, 3, 4, 5>>, <<2026, 11, 5, 23, 59, 59>>}
Uuids == {0, 41201, 11259375, 16777215}

NoClick ==
  [fields |-> <<EMPTY, EMPTY, EMPTY>>, handled |-> FALSE, dialog |-> "none",
   generated |-> FALSE, located |-> FALSE, started |-> FALSE]

Init ==
  /\ platform \in {LINUX, WIN32}
  /\ mainloop = "running"
  /\ mount_entry = EMPTY
  /\ url_var = EMPTY
  /\ last_click = NoClick
  /\ threads = << >>

\* ------------------------------------------------------------ start_stream
\* threading.Thread(target=task, daemon=True).start(): task's closure holds
\* ip, user, password, stream_name and ffmpeg_path.
NewThread(ip, user, password, stream_name, ffmpeg_path, generated) ==
  [pc |-> "probing", ip |-> ip, user |-> user, password |-> password,
   stream_name |-> stream_name, ffmpeg_path |-> ffmpeg_path, generated |-> generated,
   i |-> 1, probes |-> << >>, rtsp_url |-> None,
   cmd |-> << >>, spawned |-> "no", browser |-> EMPTY, dialog |-> "none", writes |-> 0]

Running == {"probing", "found", "launching", "not_found"}

\* Mutant: the threads are not daemons, nothing stops them.
KillDaemons_Kept(ts) == ts

\* The interpreter exits: a daemon thread still running is stopped where it is.
KillDaemons(ts) ==
  [w \in 1..Len(ts) |-> IF ts[w].pc \in Running THEN [ts[w] EXCEPT !.pc = "killed"] ELSE ts[w]]

\* Mutant: the password is left out of the test.
MissingInfo_NoPassword(ip, user, password) == ip = EMPTY \/ user = EMPTY

\* Line 151: not all([ip, user, password])
MissingInfo(ip, user, password) == ip = EMPTY \/ user = EMPTY \/ password = EMPTY

\* One click on Start with the fields as typed; exists is os.path.exists of the
\* bundled ffmpeg, now and u the clock and the uuid4 draw; limit caps the threads.
start_stream(ip_raw, user_raw, password_raw, mount_raw, exists, now, u, limit) ==
  LET ip == strip(ip_raw)
      user == strip(user_raw)
      password == strip(password_raw)
      typed == strip(mount_raw)
      generated == typed = EMPTY
      stream_name == IF generated THEN generate_mount_name(now, u) ELSE typed
      click == [fields |-> <<ip_raw, user_raw, password_raw>>, handled |-> TRUE,
                dialog |-> "none", generated |-> generated, located |-> TRUE,
                started |-> TRUE]
  IN  /\ mainloop = "running"
      /\ IF MissingInfo(ip, user, password)
         THEN /\ last_click' = [click EXCEPT !.dialog = "missing_info", !.generated = FALSE,
                                             !.located = FALSE, !.started = FALSE]
              /\ UNCHANGED <<platform, mainloop, mount_entry, url_var, threads>>
         ELSE /\ Len(threads) < limit
              /\ mount_entry' = IF generated THEN stream_name ELSE mount_raw
              /\ IF exists
                 THEN /\ threads' = Append(threads,
                             NewThread(ip, user, password, stream_name,
                                       check_ffmpeg(platform), generated))
                      /\ last_click' = click
                      /\ UNCHANGED <<platform, mainloop, url_var>>
                 ELSE \* check_ffmpeg: showerror, then sys.exit(1) ends the main loop
                      /\ last_click' = [click EXCEPT !.dialog = "ffmpeg_missing",
                                                     !.located = FALSE, !.started = FALSE]
                      /\ mainloop' = "exited"
                      /\ threads' = KillDaemons(threads)
                      /\ UNCHANGED <<platform, url_var>>

\* ------------------------------------------------------- the worker thread
\* A Tk call made by a worker works while the main loop runs; once the window is
\* gone it may still get through or raise.
TkOk == IF mainloop = "running" THEN {TRUE} ELSE BOOLEAN

\* One iteration of detect_rtsp_url's loop: probe candidate i.
detect_rtsp_url(w, out) ==
  LET t == threads[w]
      url == RtspUrl(t.user, t.password, t.ip, common_paths[t.i])
      probe == ProbeCmd(platform, t.ffmpeg_path, url)
      next == ProbeStep(t.i, out)
  IN  /\ mainloop # "exited"
      /\ t.pc = "probing"
      /\ threads' = [threads EXCEPT ![w] =
            [t EXCEPT !.pc = next,
                      \* the log of the probes run: the URL handed to the tool, and
                      \* whether the tool succeeded (a marker in stderr or exit 0)
                      !.probes = Append(t.probes,
                          [url |-> InputOf(probe),
                           ok |-> out.kind = "completed"
                                    /\ (out.stderr # {} \/ out.returncode = 0)]),
                      !.rtsp_url = IF next = "found" THEN url ELSE None,
                      !.i = IF next = "probing" THEN t.i + 1 ELSE t.i]]
      /\ UNCHANGED <<platform, mainloop, mount_entry, url_var, last_click>>

\* Line 98-99, then task's "if rtsp_url:" with None: the error box, no launch.
rtsp_error(w, tk_ok) ==
  LET t == threads[w]
  IN  /\ mainloop # "exited"
      /\ t.pc = "not_found"
      /\ threads' = [threads EXCEPT ![w] =
            [t EXCEPT !.pc = IF tk_ok THEN "error_shown" ELSE "crashed",
                      !.dialog = IF tk_ok THEN "rtsp_error" ELSE "none"]]
      /\ UNCHANGED <<platform, mainloop, mount_entry, url_var, last_click>>

\* Mutant: the browser is opened before the spawn is known to have worked.
run_ffmpeg_BrowserFirst(w, popen_ok, tk_ok) ==
  LET t == threads[w]
  IN  /\ mainloop # "exited"
      /\ t.pc = "found"
      /\ threads' = [threads EXCEPT ![w] =
            [t EXCEPT !.pc = IF tk_ok THEN "launching" ELSE "crashed",
                      !.cmd = StreamCmd(platform, t.ffmpeg_path, t.rtsp_url, t.stream_name),
                      !.spawned = IF popen_ok THEN "ok" ELSE "failed",
                      !.browser = viewer_url(platform, t.stream_name),
                      !.dialog = IF ~tk_ok THEN "none"
                                 ELSE IF popen_ok THEN "stream_started"
                                 ELSE "ffmpeg_failed"]]
      /\ UNCHANGED <<platform, mainloop, mount_entry, url_var, last_click>>

\* task's "if rtsp_url:" with a URL: run_ffmpeg up to its message box.
run_ffmpeg(w, popen_ok, tk_ok) ==
  LET t == threads[w]
  IN  /\ mainloop # "exited"
      /\ t.pc = "found"
      /\ threads' = [threads EXCEPT ![w] =
            [t EXCEPT !.pc = IF tk_ok THEN "launching" ELSE "crashed",
                      !.cmd = StreamCmd(platform, t.ffmpeg_path, t.rtsp_url, t.stream_name),
                      !.spawned = IF popen_ok THEN "ok" ELSE "failed",
                      !.browser = IF popen_ok THEN viewer_url(platform, t.stream_name)
                                  ELSE EMPTY,
                      !.dialog = IF ~tk_ok THEN "none"
                                 ELSE IF popen_ok THEN "stream_started"
                                 ELSE "ffmpeg_failed"]]
      /\ UNCHANGED <<platform, mainloop, mount_entry, url_var, last_click>>

\* Mutant: the result field is set after the failure box too.
run_ffmpeg_return_Always(w, tk_ok) ==
  LET t == threads[w]
  IN  /\ mainloop # "exited"
      /\ t.pc = "launching"
      /\ threads' = [threads EXCEPT ![w] =
            [t EXCEPT !.pc = IF ~tk_ok THEN "crashed" ELSE "done",
                      !.writes = IF tk_ok THEN t.writes + 1 ELSE t.writes]]
      /\ url_var' = IF tk_ok THEN viewer_url(platform, t.stream_name) ELSE url_var
      /\ UNCHANGED <<platform, mainloop, mount_entry, last_click>>

\* The message box of run_ffmpeg is dismissed: line 138 after "Stream Started",
\* the return after "Failed to start FFmpeg".
run_ffmpeg_return(w, tk_ok) ==
  LET t == threads[w]
      sets == t.spawned = "ok" /\ tk_ok
  IN  /\ mainloop # "exited"
      /\ t.pc = "launching"
      /\ threads' = [threads EXCEPT ![w] =
            [t EXCEPT !.pc = IF t.spawned = "ok" /\ ~tk_ok THEN "crashed" ELSE "done",
                      !.writes = IF sets THEN t.writes + 1 ELSE t.writes]]
      /\ url_var' = IF sets THEN viewer_url(platform, t.stream_name) ELSE url_var
      /\ UNCHANGED <<platform, mainloop, mount_entry, last_click>>

\* ------------------------------------------------------------ the window
\* The user closes the window: root.mainloop() returns.
close_window ==
  /\ mainloop = "running"
  /\ mainloop' = "closed"
  /\ UNCHANGED <<platform, mount_entry, url_var, last_click, threads>>

\* The script ends after line 217: the interpreter exits without joining the
\* daemon threads.
interpreter_exit ==
  /\ mainloop = "closed"
  /\ mainloop' = "exited"
  /\ threads' = KillDaemons(threads)
  /\ UNCHANGED <<platform, mount_entry, url_var, last_click>>

\* ----------------------------------------------------------- specifications
\* A click: the three required fields as typed; when they pass validation, the
\* mount field (typed, or left as it is), whether the bundled ffmpeg is there,
\* and, for a generated name, the clock and the uuid4 draw.
Click(mounts, clock, uuids, limit) ==
  \E ip_raw \in IpInputs, user_raw \in UserInputs, password_raw \in PasswordInputs :
    LET missing == MissingInfo(strip(ip_raw), strip(user_raw), strip(password_raw))
    IN  \E mount_raw \in (IF missing THEN {EMPTY} ELSE mounts \cup {mount_entry}),
           exists \in (IF missing THEN {TRUE} ELSE BOOLEAN) :
          LET drawn == ~missing /\ strip(mount_raw) = EMPTY
          IN  \E now \in (IF drawn THEN clock ELSE {CHOOSE c \in clock : TRUE}),
                 u \in (IF drawn THEN uuids ELSE {CHOOSE v \in uuids : TRUE}) :
                start_stream(ip_raw, user_raw, password_raw, mount_raw, exists, now, u, limit)

Probe(outs) == \E w \in 1..Len(threads), out \in outs : detect_rtsp_url(w, out)
NotFound == \E w \in 1..Len(threads), tk_ok \in TkOk : rtsp_error(w, tk_ok)
Launch == \E w \in 1..Len(threads), popen_ok \in BOOLEAN, tk_ok \in TkOk :
            run_ffmpeg(w, popen_ok, tk_ok)
Return == \E w \in 1..Len(threads), tk_ok \in TkOk : run_ffmpeg_return(w, tk_ok)

\* Spec: one run against any camera.  A single click passes validation, with the
\* mount field empty or holding a plain name; every probe can end in every way;
\* the user may close the window at any time.
OneClock == {<<2026, 11, 5, 23, 59, 59>>}
OneUuid == {11259375}
PlainMounts == {EMPTY, <<"c","a","m">>}
ClickOnce == Click(PlainMounts, OneClock, OneUuid, 1)
ProbeAny == Probe(ProbeOutcomes)
Next ==
  ClickOnce \/ ProbeAny \/ NotFound \/ Launch \/ Return \/ close_window \/ interpreter_exit
Spec == Init /\ [][Next]_vars

\* SpecNames: one run against a camera that answers on the first path, for
\* every mount name of up to MaxNameLen characters and every clock and uuid.
AnswerOutcomes == {out \in ProbeOutcomes : LooksValid(out)}
ClickNamed == Click(Names(MaxNameLen), Clock, Uuids, 1)
ProbeAnswered == Probe(AnswerOutcomes)
NextNames == ClickNamed \/ ProbeAnswered \/ Launch \/ Return
SpecNames == Init /\ [][NextNames]_vars

\* SpecClicks: up to MaxClicks clicks pass validation, a new worker starting
\* while earlier ones are still at work; the camera answers on the first path.
ClickAgain == Click(PlainMounts, OneClock, OneUuid, MaxClicks)
NextClicks == ClickAgain \/ ProbeAnswered \/ Launch \/ Return
SpecClicks == Init /\ [][NextClicks]_vars

\* ==================================================================== claims
Last(s) == s[Len(s)]
Workers == 1..Len(threads)
CandidateUrl(t, k) == RtspUrl(t.user, t.password, t.ip, common_paths[k])
\* s occurs in t as a run of consecutive characters.
Infix(s, t) == \E a \in 0..(Len(t) - Len(s)) : SubSeq(t, a + 1, a + Len(s)) = s
Chars(s) == {s[k] : k \in 1..Len(s)}
After(s, prefix) == SubSeq(s, Len(prefix) + 1, Len(s))

\* C1: the candidates are probed in list order and the loop stops at the first
\* success: the k-th probe is of candidate k's URL, only the last probe run can
\* be a success, and after a success on the N-th the value returned is
\* candidate N's URL, with exactly N probes run.
C1_FirstSuccessWins ==
  \A w \in Workers :
    LET t == threads[w]
        N == Len(t.probes)
    IN  /\ N <= NumPaths
        /\ \A k \in 1..N : t.probes[k].url = CandidateUrl(t, k)
        /\ \A k \in 1..N : t.probes[k].ok => k = N
        /\ (N > 0 /\ t.probes[N].ok) =>
              /\ t.rtsp_url = CandidateUrl(t, N)
              /\ t.pc \notin {"probing", "not_found", "error_shown"}
        /\ t.pc = "found" => N > 0 /\ t.probes[N].ok

C1_Witness ==
  \E w \in Workers :
    /\ threads[w].pc = "found"
    /\ Len(threads[w].probes) = 13
    /\ \A k \in 1..12 : ~threads[w].probes[k].ok

\* C2: when the tool succeeds on no candidate, every one of the 20 is probed
\* exactly once, the loop is not run again, the error box is shown, None is
\* returned and no streaming process is started.
C2_Exhausted ==
  \A w \in Workers :
    LET t == threads[w]
        N == Len(t.probes)
        none_ok == \A k \in 1..N : ~t.probes[k].ok
    IN  /\ (t.pc \in {"not_found", "error_shown"}) =>
              /\ N = NumPaths /\ none_ok
              /\ \A j, k \in 1..N : j # k => t.probes[j].url # t.probes[k].url
        /\ (N = NumPaths /\ none_ok) =>
              /\ t.rtsp_url = None
              /\ t.cmd = << >> /\ t.spawned = "no" /\ t.browser = EMPTY
              /\ t.pc \in {"not_found", "error_shown", "killed", "crashed"}
              /\ mainloop = "running" => t.pc \in {"not_found", "error_shown"}
        /\ t.pc = "error_shown" => t.dialog = "rtsp_error"
        /\ (none_ok /\ N < NumPaths) => t.pc \in {"probing", "killed"}

C2_Witness ==
  \E w \in Workers :
    /\ threads[w].pc = "error_shown"
    /\ threads[w].dialog = "rtsp_error"
    /\ Len(threads[w].probes) = NumPaths

C4_TypedNameSanitized ==
  \A w \in Workers :
    LET t == threads[w]
    IN  (~t.generated /\ t.cmd # << >>) =>
          /\ Chars(After(Last(t.cmd), IcecastBase)) \subseteq MountChars
          /\ t.browser # EMPTY => Chars(After(t.browser, ViewerBase)) \subseteq MountChars

\* The 14-digit pattern of the claim: stream_<14 digits>_<6 hex chars>.
MatchesClaimedPattern(name) ==
  /\ Len(name) = 28
  /\ SubSeq(name, 1, 7) = <<"s","t","r","e","a","m","_">>
  /\ \A k \in 8..21 : name[k] \in Digits
  /\ name[22] = "_"
  /\ \A k \in 23..28 : name[k] \in HexDigits

\* stream_<8 digits>_<6 digits>_<6 hex chars>
MatchesDateTimePattern(name) ==
  /\ Len(name) = 29
  /\ SubSeq(name, 1, 7) = <<"s","t","r","e","a","m","_">>
  /\ \A k \in 8..15 : name[k] \in Digits
  /\ name[16] = "_"
  /\ \A k \in 17..22 : name[k] \in Digits
  /\ name[23] = "_"
  /\ \A k \in 24..29 : name[k] \in HexDigits

\* C5 as claimed: with the mount field empty the name generated and used
\* matches stream_<14 digits>_<6 hex chars>.
C5_Original ==
  \A w \in Workers : threads[w].generated => MatchesClaimedPattern(threads[w].stream_name)

\* C5 amended: with the mount field empty the name generated matches
\* stream_<8 digits>_<6 digits>_<6 hex chars> (date, underscore, time), and it
\* is that name, unchanged, that the endpoint and the viewer URL are built from.
C5_GeneratedName ==
  \A w \in Workers :
    LET t == threads[w]
    IN  t.generated =>
          /\ MatchesDateTimePattern(t.stream_name)
          /\ t.cmd # << >> => Last(t.cmd) = IcecastBase \o t.stream_name
          /\ t.browser # EMPTY => t.browser = ViewerBase \o t.stream_name
          /\ (w = Len(threads) /\ last_click.started) => mount_entry = t.stream_name

C5_Witness ==
  \E w \in Workers :
    /\ threads[w].generated
    /\ threads[w].spawned = "ok"
    /\ threads[w].pc = "done"
    /\ url_var = ViewerBase \o threads[w].stream_name

\* A required field of the last click is empty once trimmed.
MissingField(click) ==
  \E k \in 1..3 : \A j \in 1..Len(click.fields[k]) : click.fields[k][j] \in Whitespace

\* What a click with a blank required field leaves behind, and what its step changes.
C6_ClickState ==
  (last_click.handled /\ MissingField(last_click)) =>
      /\ last_click.dialog = "missing_info"
      /\ ~last_click.generated /\ ~last_click.located /\ ~last_click.started
C6_ClickStep ==
  /\ (last_click' # last_click /\ MissingField(last_click')) =>
        /\ threads' = threads
        /\ mount_entry' = mount_entry /\ url_var' = url_var /\ mainloop' = mainloop
  /\ Len(threads') > Len(threads) => last_click'.handled /\ ~MissingField(last_click')

\* C6: a click with IP, username or password empty after trimming shows the
\* warning and does nothing else: no mount name is generated, the tool is not
\* looked for, no worker is started, nothing a worker does follows from it.
C6_MissingFieldBlocksStart == []C6_ClickState /\ [][C6_ClickStep]_vars

C6_Witness ==
  /\ last_click.handled /\ last_click.dialog = "missing_info"
  /\ last_click.fields[1] # EMPTY /\ last_click.fields[2] # EMPTY
  /\ Len(threads) = 1 /\ threads[1].pc = "probing" /\ Len(threads[1].probes) = 3

\* The steps of a run: idle -> probing -> (found -> launching -> done) |
\* (not_found -> error_shown).  A run the closing of the window or the exit of
\* the process cuts short ends where it is ("killed", "crashed").
RunStep(from, to) ==
  \/ from = to
  \/ from = "probing" /\ to \in {"found", "not_found"}
  \/ from = "found" /\ to = "launching"
  \/ from = "launching" /\ to = "done"
  \/ from = "not_found" /\ to = "error_shown"

\* Where the spawn stands at each point of a run, and the steps a run takes.
C7_RunState ==
  \A w \in Workers :
    LET t == threads[w]
        N == Len(t.probes)
    IN  /\ t.pc \in {"launching", "done"} => t.spawned # "no"
        /\ t.spawned # "no" =>
              /\ N > 0 /\ t.probes[N].ok
              /\ InputOf(t.cmd) = t.probes[N].url
              /\ t.rtsp_url = t.probes[N].url
        /\ t.pc \in {"probing", "found", "not_found", "error_shown"} =>
              t.spawned = "no" /\ t.cmd = << >>
        /\ t.pc \in {"killed", "crashed"} => mainloop # "running"
C7_RunStepOnly ==
  /\ \A w \in Workers :
       /\ \/ RunStep(threads[w].pc, threads'[w].pc)
          \/ threads'[w].pc \in {"killed", "crashed"} /\ threads[w].pc \in Running
       /\ threads[w].spawned # "no" =>
            threads'[w].spawned = threads[w].spawned /\ threads'[w].cmd = threads[w].cmd
       /\ threads'[w].spawned # threads[w].spawned => threads[w].pc = "found"
  /\ Len(threads') >= Len(threads)
  /\ \A w \in (Len(threads) + 1)..Len(threads') :
       threads'[w].pc = "probing" /\ threads'[w].spawned = "no" /\ threads'[w].probes = << >>

\* C7: a run takes only the steps idle -> probing -> (found -> launching -> done)
\* | (not_found -> error_shown); the streaming process is launched only in the
\* step that leaves "found", so after a successful probe, once, and with the URL
\* the prober returned.
C7_RunSequence == []C7_RunState /\ [][C7_RunStepOnly]_vars

C7_Witness ==
  \E w \in Workers :
    /\ threads[w].pc = "done" /\ threads[w].spawned = "ok"
    /\ Len(threads[w].probes) = 4
    /\ mainloop = "running"

\* C8 as claimed: over any sequence of clicks the result field is written at
\* most once by the worker threads.
C8_Original ==
  Cardinality({w \in Workers : threads[w].writes > 0}) <= 1
    /\ \A w \in Workers : threads[w].writes <= 1

\* The writes of each worker, and what a step that writes the result field is.
C8_WritesState ==
  \A w \in Workers :
    /\ threads[w].writes <= 1
    /\ threads[w].writes = 1 => threads[w].spawned = "ok" /\ threads[w].pc = "done"
C8_WritesStep ==
  LET stepped == {w \in Workers : threads'[w] # threads[w]}
  IN  /\ url_var' # url_var =>
            \E w \in Workers :
              /\ threads'[w].writes = threads[w].writes + 1
              /\ url_var' = threads[w].browser
              /\ url_var' = ViewerBase \o After(Last(threads[w].cmd), IcecastBase)
      /\ (\E w \in Workers : threads'[w].writes # threads[w].writes) =>
            url_var' # EMPTY /\ Len(threads') = Len(threads)
      /\ (Len(threads') = Len(threads) /\ mainloop' = mainloop /\ threads' # threads) =>
            /\ Cardinality(stepped) = 1
            /\ mount_entry' = mount_entry /\ last_click' = last_click
            /\ platform' = platform

\* C8 amended: each worker thread writes the result field at most once, after
\* its own stream was spawned, with its own viewer URL, and a step of a worker
\* writes nothing else that is shared: not the mount field, not another
\* worker's state.  Two runs write it twice.
C8_WrittenOncePerRun == []C8_WritesState /\ [][C8_WritesStep]_vars

C8_Witness ==
  /\ Len(threads) = 2
  /\ threads[1].writes = 1 /\ threads[2].writes = 1
  /\ threads[1].stream_name # threads[2].stream_name

\* C9 as claimed: a worker at work when the window is closed still runs to the
\* end of its sequence, so none is ever stopped part-way.
C9_Original == \A w \in Workers : threads[w].pc # "killed"

\* The workers once the interpreter has exited, and the step that stops them.
C9_ExitState ==
  mainloop = "exited" => \A w \in Workers : threads[w].pc \notin Running
C9_ExitStep ==
  /\ mainloop = "exited" => threads' = threads /\ url_var' = url_var /\ mainloop' = mainloop
  /\ \A w \in Workers :
       (threads'[w].pc = "killed" /\ threads[w].pc # "killed") =>
          /\ mainloop' = "exited" /\ mainloop # "exited"
          /\ threads'[w] = [threads[w] EXCEPT !.pc = "killed"]

\* C9 amended: closing the window does not stop the worker at once, but it is
\* a daemon thread: when the interpreter exits after the main loop has returned,
\* a worker still at work is stopped where it is, and from then on no further
\* candidate is probed, no stream is launched and the result field is not
\* written.
C9_DaemonStopsAtExit == []C9_ExitState /\ [][C9_ExitStep]_vars

C9_Witness ==
  /\ mainloop = "exited"
  /\ \E w \in Workers :
       /\ threads[w].pc = "killed"
       /\ Len(threads[w].probes) = 5
       /\ threads[w].spawned = "no"

\* What a failed and a successful spawn leave behind, and the step of a failed one.
C10_SpawnState ==
  /\ \A w \in Workers :
       LET t == threads[w]
       IN  /\ t.spawned = "failed" =>
                /\ t.browser = EMPTY /\ t.writes = 0
                /\ t.dialog = "ffmpeg_failed" \/ t.pc = "crashed"
                /\ t.pc \in {"launching", "done", "crashed", "killed"}
           /\ t.writes > 0 => t.spawned = "ok" /\ t.browser = url_var
           /\ t.spawned = "ok" => t.browser = ViewerBase \o t.stream_name
  /\ url_var # EMPTY => \E w \in Workers : threads[w].spawned = "ok" /\ threads[w].writes = 1
C10_SpawnStep ==
  \A w \in Workers :
    (threads[w].spawned = "failed" \/ threads'[w].spawned = "failed")
       /\ threads'[w] # threads[w] => url_var' = url_var

====
